---- MODULE Spec2Model ----
(***************************************************************************)
(* Tradelogix trading journal: the trade store (backend/models/Trade.js),  *)
(* the trade and report controllers, rendered as a state machine over the  *)
(* trades collection.  Monetary amounts are integers; a JavaScript number  *)
(* that may be fractional, NaN, Infinity or undefined is a tagged record.  *)
(* The module also covers the MongoConnection utility with the             *)
(* ensureDbConnection middleware, and the browser's ApiCache with          *)
(* optimizedApiCall.                                                       *)
(***************************************************************************)
EXTENDS Integers, Sequences, FiniteSets, TLC

VARIABLES trades, autoCalc, res, now

\* the MongoConnection singleton (backend/utils/mongoConnection.js), the
\* driver's connection it wraps, and the callers of connect
VARIABLES isConnected, connectionPromise, chains, readyState, dbUp, pc

\* the browser's ApiCache singleton (frontend/src/utils/cache.js), the fetches
\* and the calls of optimizedApiCall, the last value get returned, and the
\* browser's clock in milliseconds
VARIABLES cache, inProgress, fetches, calls, got, clock

conn == <<isConnected, connectionPromise, chains, readyState, dbUp, pc>>
front == <<cache, inProgress, fetches, calls, got, clock>>

\* the state outside the trades collection
infra == <<conn, front>>

vars == <<trades, autoCalc, res, now, infra>>

\* ------------------------------------------------------------------ bounds
\* the trades collection holds at most MaxTrades documents in Spec
MaxTrades == 1
\* and at most MaxReportTrades documents in SpecReport
MaxReportTrades == 4
\* at most MaxSymbolTrades documents in SpecSymbols
MaxSymbolTrades == 11
\* and at most MaxExportTrades documents in SpecExport
MaxExportTrades == 2
\* at most MaxCompareTrades documents in SpecCompare
MaxCompareTrades == 3
\* and at most MaxListTrades documents in SpecList
MaxListTrades == 2
\* at most MaxFrameTrades documents in SpecFrame
MaxFrameTrades == 2
\* at most MaxClockTrades documents in SpecClock, whose clock stops at MaxDay
MaxClockTrades == 2
MaxDay == 10
\* and at most MaxPercentTrades documents in SpecPercent
MaxPercentTrades == 2
\* at most MaxChains connectWithRetry chains are started in SpecConn
MaxChains == 2
\* the trades collection holds at most MaxCloseTrades documents in SpecClose
MaxCloseTrades == 2
\* the browser's clock stops after MaxMinutes minutes
MaxMinutes == 6
\* at most MaxFetches network requests are made in SpecDedup
MaxFetches == 3

\* the callers of MongoConnection.connect: the start-up code and the requests
\* that pass through ensureDbConnection
Requests == {"r1", "r2"}
ConnectCallers == Requests \cup {"boot"}

\* the cache keys and the components that call optimizedApiCall
Keys == {"k1", "k2"}
Components == {"a1", "a2"}
NoCall == [at |-> "idle", fetch |-> 0, value |-> <<>>]

\* new ApiCache(): both maps empty (a key maps to <<>> when the map lacks it)
FrontIdle ==
    /\ cache = [k \in Keys |-> <<>>]
    /\ inProgress = [k \in Keys |-> 0]
    /\ fetches = <<>>
    /\ calls = [c \in Components |-> NoCall]
    /\ got = <<>>
    /\ clock = 0

\* a caller that is not inside connect or ensureDbConnection
AtRest == [at |-> "idle", chain |-> 0]

\* new MongoConnection(), a driver that has not connected, callers at rest
InfraIdle ==
    /\ isConnected = FALSE
    /\ connectionPromise = 0
    /\ chains = <<>>
    /\ readyState = 0
    /\ dbUp = FALSE
    /\ pc = [c \in ConnectCallers |-> AtRest]
    /\ FrontIdle

\* ------------------------------------------------------ values and helpers
\* the day the clock shows at the start: days are counted from 1 January
\* 2024, day 1
FirstDay == 9

Users == {"u1", "u2"}

\* an optional field: <<>> is null/undefined, <<v>> is the value v
None == <<>>
Some(v) == <<v>>
IsSome(o) == Len(o) > 0
Val(o) == o[1]

Abs(n) == IF n < 0 THEN -n ELSE n

RECURSIVE GCD(_, _)
GCD(a, b) == IF b = 0 THEN a ELSE GCD(b, a % b)

\* JavaScript numbers: a rational n/d in lowest terms with d > 0, or a special
JsSpecial(k) == [k |-> k, n |-> 0, d |-> 1]
NaN == JsSpecial("NaN")
Infinity == JsSpecial("Infinity")
NegInfinity == JsSpecial("-Infinity")
Undefined == JsSpecial("undefined")
JsNull == JsSpecial("null")
Frac(n, d) ==
    LET s == IF d < 0 THEN -1 ELSE 1
        g == GCD(Abs(n), Abs(d))
    IN  [k |-> "num", n |-> (s * n) \div g, d |-> (s * d) \div g]
Num(n) == [k |-> "num", n |-> n, d |-> 1]
IsNum(x) == x.k = "num"

\* x / y of two integers, as JavaScript divides them
JsDiv(x, y) ==
    IF y # 0 THEN Frac(x, y)
    ELSE IF x = 0 THEN NaN
    ELSE IF x > 0 THEN Infinity ELSE NegInfinity

\* Number(x.toFixed(2)): round to hundredths, ties away from zero; NaN and the
\* infinities print and parse back unchanged
ToFixed2(x) ==
    IF ~IsNum(x) THEN x
    ELSE LET a == Abs(x.n) * 100
             q == (2 * a + x.d) \div (2 * x.d)
         IN  Frac(IF x.n < 0 THEN -q ELSE q, 100)

RECURSIVE SumSeq(_)
SumSeq(s) == IF s = <<>> THEN 0 ELSE Head(s) + SumSeq(Tail(s))

RECURSIVE MaxSeq(_)
MaxSeq(s) ==
    IF Len(s) = 1 THEN Head(s)
    ELSE LET m == MaxSeq(Tail(s)) IN IF Head(s) > m THEN Head(s) ELSE m

RECURSIVE MinSeq(_)
MinSeq(s) ==
    IF Len(s) = 1 THEN Head(s)
    ELSE LET m == MinSeq(Tail(s)) IN IF Head(s) < m THEN Head(s) ELSE m

\* ------------------------------------------------------------ Trade schema
\* text is a sequence of one-character strings
UpperChar(c) == IF c = "a" THEN "A" ELSE IF c = "b" THEN "B" ELSE c
ToUpper(s) == [i \in 1..Len(s) |-> UpperChar(s[i])]

RECURSIVE TrimLeft(_)
TrimLeft(s) == IF s # <<>> /\ Head(s) = " " THEN TrimLeft(Tail(s)) ELSE s
RECURSIVE TrimRight(_)
TrimRight(s) ==
    IF s # <<>> /\ s[Len(s)] = " " THEN TrimRight(SubSeq(s, 1, Len(s) - 1)) ELSE s
Trim(s) == TrimRight(TrimLeft(s))

Has(body, f) == f \in DOMAIN body
\* a request without fields
NoBody == <<>>
\* { ...a, ...b }
Merge(a, b) ==
    [f \in DOMAIN a \cup DOMAIN b |-> IF f \in DOMAIN b THEN b[f] ELSE a[f]]

\* the schema's defaults: a path the body does not give takes its default
SchemaDefaults ==
    [ exitDate |-> None, exitPrice |-> None, status |-> "OPEN",
      commission |-> 0, fees |-> 0, strategy |-> None, notes |-> None,
      profit |-> 0, profitPercentage |-> Num(0) ]

SchemaPaths ==
    { "user", "symbol", "type", "strategy", "entryDate", "entryPrice",
      "quantity", "exitDate", "exitPrice", "status", "commission", "fees",
      "notes", "profit", "profitPercentage" }

RequiredPaths == {"symbol", "type", "entryDate", "entryPrice", "quantity"}

\* the setters of a path (uppercase, trim), applied when a value is assigned
CastPath(f, v) ==
    IF f = "symbol" THEN ToUpper(Trim(v))
    ELSE IF f = "strategy" /\ IsSome(v) THEN Some(Trim(Val(v)))
    ELSE v

\* the validators of a path
ValidPath(f, v) ==
    CASE f = "symbol" -> v # <<>>
      [] f = "type" -> v \in {"BUY", "SELL"}
      [] f = "status" -> v \in {"OPEN", "CLOSED", "CANCELLED"}
      [] f = "entryPrice" -> v >= 0
      [] f = "quantity" -> v >= 0
      [] f = "commission" -> v >= 0
      [] f = "fees" -> v >= 0
      [] f = "exitPrice" -> IsSome(v) => Val(v) >= 0
      [] OTHER -> TRUE

\* new Trade(body): the defaults, overlaid by the body's schema paths
NewDoc(id, body) ==
    [f \in SchemaPaths \cup {"_id"} |->
        IF f = "_id" THEN id
        ELSE IF Has(body, f) THEN CastPath(f, body[f])
        ELSE SchemaDefaults[f]]

\* document validation on save
ValidDoc(body) ==
    /\ RequiredPaths \subseteq DOMAIN body
    /\ \A f \in DOMAIN body : ValidPath(f, CastPath(f, body[f]))

\* truthiness of an optional number: null and 0 are falsy
Truthy(o) == IsSome(o) /\ Val(o) # 0

\* the pre-save hook that no longer reads the owner's setting
PreSaveIgnoresSetting(doc, auto) ==
    IF doc.status = "CLOSED" /\ Truthy(doc.exitPrice)
    THEN LET entryValue == doc.entryPrice * doc.quantity
             exitValue == Val(doc.exitPrice) * doc.quantity
             totalCosts == doc.commission + doc.fees
             p == IF doc.type = "BUY"
                  THEN exitValue - entryValue - totalCosts
                  ELSE entryValue - exitValue - totalCosts
         IN  [doc EXCEPT !.profit = p,
                         !.profitPercentage = JsDiv(p * 100, entryValue)]
    ELSE doc

\* tradeSchema.pre('save'): profit of a closed trade, when the owner asks for it
PreSave(doc, auto) ==
    IF doc.status = "CLOSED" /\ Truthy(doc.exitPrice)
    THEN IF auto
         THEN LET entryValue == doc.entryPrice * doc.quantity
                  exitValue == Val(doc.exitPrice) * doc.quantity
                  totalCosts == doc.commission + doc.fees
                  p == IF doc.type = "BUY"
                       THEN exitValue - entryValue - totalCosts
                       ELSE entryValue - exitValue - totalCosts
              IN  [doc EXCEPT !.profit = p,
                              !.profitPercentage = JsDiv(p * 100, entryValue)]
         ELSE doc
    ELSE doc

\* --------------------------------------------------------- the collection
\* positions of the documents a query filter matches
Ids == {trades[i]._id : i \in 1..Len(trades)}
IndexOf(id) == CHOOSE i \in 1..Len(trades) : trades[i]._id = id
FreshId == CHOOSE n \in 1..(Len(trades) + 1) : n \notin Ids

\* new Date(), dayjs(): the day the clock shows
Now == now

\* $set of an update document: each schema path of the body, cast, replaces
\* the stored value; paths outside the schema are dropped (strict mode)
ApplyUpdate(doc, body) ==
    [f \in DOMAIN doc |->
        IF f # "_id" /\ Has(body, f) THEN CastPath(f, body[f]) ELSE doc[f]]

\* runValidators: the validators of the paths the update sets
ValidUpdate(body) == \A f \in DOMAIN body : ValidPath(f, CastPath(f, body[f]))

\* the response: its HTTP status and the part of its body the model keeps; the
\* response to a report also names the handler and the query it answers
Reply(code) == [code |-> code, body |-> <<>>]
IsReply(r, kind) == Has(r, "kind") /\ r.kind = kind

\* Trade.create(req.body) with req.body.user = req.user.id
createTrade(u, body) ==
    LET b == [f \in DOMAIN body \cup {"user"} |-> IF f = "user" THEN u ELSE body[f]]
        doc == NewDoc(FreshId, b)
    IN  /\ IF ValidDoc(b)
           THEN /\ trades' = Append(trades, PreSave(doc, autoCalc[doc.user]))
                /\ res' = Reply(201)
           ELSE /\ res' = Reply(500)
                /\ UNCHANGED trades
        /\ UNCHANGED <<autoCalc, now, infra>>

\* Trade.findOneAndUpdate({_id, user}, req.body, {new, runValidators})
updateTrade(u, id, body) ==
    /\ IF ~ValidUpdate(body)
       THEN /\ res' = Reply(500)
            /\ UNCHANGED trades
       ELSE IF id \in Ids /\ trades[IndexOf(id)].user = u
            THEN /\ trades' = [trades EXCEPT
                                 ![IndexOf(id)] = ApplyUpdate(@, body)]
                 /\ res' = Reply(200)
            ELSE /\ res' = Reply(404)
                 /\ UNCHANGED trades
    /\ UNCHANGED <<autoCalc, now, infra>>

\* Trade.findOneAndDelete({_id, user})
deleteTrade(u, id) ==
    /\ IF id \in Ids /\ trades[IndexOf(id)].user = u
       THEN /\ trades' = SelectSeq(trades, LAMBDA t : t._id # id)
            /\ res' = Reply(204)
       ELSE /\ res' = Reply(404)
            /\ UNCHANGED trades
    /\ UNCHANGED <<autoCalc, now, infra>>

\* the update document closeTrade and bulkCloseTrades build
CloseUpdate(body) ==
    LET base == [exitPrice |-> body.exitPrice,
                 exitDate |-> IF Has(body, "exitDate") /\ IsSome(body.exitDate)
                              THEN body.exitDate ELSE Some(Now),
                 status |-> "CLOSED"]
    IN  IF Has(body, "notes") /\ IsSome(body.notes) /\ Val(body.notes) # <<>>
        THEN [f \in DOMAIN base \cup {"notes"} |->
                 IF f = "notes" THEN body.notes ELSE base[f]]
        ELSE base

\* a closeTrade whose filter does not ask for status: 'OPEN'
closeTradeAnyStatus(u, id, body) ==
    /\ IF ~(Has(body, "exitPrice") /\ Truthy(body.exitPrice))
       THEN /\ res' = Reply(400)
            /\ UNCHANGED trades
       ELSE IF ~ValidUpdate(CloseUpdate(body))
            THEN /\ res' = Reply(500)
                 /\ UNCHANGED trades
            ELSE IF id \in Ids /\ trades[IndexOf(id)].user = u
                 THEN /\ trades' = [trades EXCEPT
                            ![IndexOf(id)] = ApplyUpdate(@, CloseUpdate(body))]
                      /\ res' = Reply(200)
                 ELSE /\ res' = Reply(404)
                      /\ UNCHANGED trades
    /\ UNCHANGED <<autoCalc, now, infra>>

\* closeTrade: findOneAndUpdate({_id, user, status: 'OPEN'}, ...); the update
\* validators run on the update document before the query is sent
closeTrade(u, id, body) ==
    /\ IF ~(Has(body, "exitPrice") /\ Truthy(body.exitPrice))
       THEN /\ res' = Reply(400)
            /\ UNCHANGED trades
       ELSE IF ~ValidUpdate(CloseUpdate(body))
            THEN /\ res' = Reply(500)
                 /\ UNCHANGED trades
            ELSE IF /\ id \in Ids
                    /\ trades[IndexOf(id)].user = u
                    /\ trades[IndexOf(id)].status = "OPEN"
                 THEN /\ trades' = [trades EXCEPT
                            ![IndexOf(id)] = ApplyUpdate(@, CloseUpdate(body))]
                      /\ res' = Reply(200)
                 ELSE /\ res' = Reply(404)
                      /\ UNCHANGED trades
    /\ UNCHANGED <<autoCalc, now, infra>>

\* bulkCloseTrades: Trade.updateMany({_id: {$in}, user, status: 'OPEN'}, ...)
bulkCloseTrades(u, ids, body) ==
    /\ IF ids = {}
       THEN /\ res' = Reply(400)
            /\ UNCHANGED trades
       ELSE IF ~(Has(body, "exitPrice") /\ Truthy(body.exitPrice))
            THEN /\ res' = Reply(400)
                 /\ UNCHANGED trades
            ELSE LET hit(t) == t._id \in ids /\ t.user = u /\ t.status = "OPEN"
                     upd == [f \in {"exitPrice", "exitDate", "status"} |->
                                CloseUpdate(body)[f]]
                 IN  /\ trades' = [i \in 1..Len(trades) |->
                            IF hit(trades[i]) THEN ApplyUpdate(trades[i], upd)
                            ELSE trades[i]]
                     /\ res' = [code |-> 200, body |-> Some(Len(SelectSeq(trades, hit)))]
    /\ UNCHANGED <<autoCalc, now, infra>>

\* updateScreenshotDescription and its siblings: Trade.findOne({_id, user}),
\* a change to the screenshots, then trade.save(), which runs the pre-save hook
saveTrade(u, id) ==
    /\ IF id \in Ids /\ trades[IndexOf(id)].user = u
       THEN /\ trades' = [trades EXCEPT
                            ![IndexOf(id)] = PreSave(@, autoCalc[@.user])]
            /\ res' = Reply(200)
       ELSE /\ res' = Reply(404)
            /\ UNCHANGED trades
    /\ UNCHANGED <<autoCalc, now, infra>>

\* updateMe: autoCalculateProfit is one of the allowed fields
updateMe(u, flag) ==
    /\ autoCalc' = [autoCalc EXCEPT ![u] = flag]
    /\ res' = Reply(200)
    /\ UNCHANGED <<trades, now, infra>>

\* ------------------------------------------------- JavaScript arithmetic
JsGt0(a) == IsNum(a) /\ a.n > 0
JsQuot(a, b) ==
    IF IsNum(a) /\ IsNum(b)
    THEN IF b.n = 0 THEN JsDiv(a.n, 0) ELSE Frac(a.n * b.d, a.d * b.n)
    ELSE NaN
JsTimes(a, b) == IF IsNum(a) /\ IsNum(b) THEN Frac(a.n * b.n, a.d * b.d) ELSE NaN
JsMinus(a, b) ==
    IF IsNum(a) /\ IsNum(b) THEN Frac(a.n * b.d - b.n * a.d, a.d * b.d) ELSE NaN
JsAbs(a) ==
    IF IsNum(a) THEN Frac(Abs(a.n), a.d)
    ELSE IF a \in {Infinity, NegInfinity} THEN Infinity ELSE NaN

\* ------------------------------------------------------------- reports
\* a date filter: [kind |-> "all"], [kind |-> "range", from, to] or
\* [kind |-> "since", from]
InFilter(t, flt) ==
    CASE flt.kind = "range" -> flt.from <= t.entryDate /\ t.entryDate <= flt.to
      [] flt.kind = "since" -> flt.from <= t.entryDate
      [] OTHER -> TRUE

\* the $match stage: the caller's trades inside the date filter
Matched(u, flt) == SelectSeq(trades, LAMBDA t : t.user = u /\ InFilter(t, flt))

ProfitsOf(m) == [i \in 1..Len(m) |-> m[i].profit]

\* the date filter generateReport builds from its query
ReportFilter(q) ==
    IF Has(q, "startDate") /\ Has(q, "endDate")
    THEN [kind |-> "range", from |-> q.startDate, to |-> q.endDate]
    ELSE IF Has(q, "period") /\ q.period = "today"
    THEN [kind |-> "range", from |-> Now, to |-> Now]
    ELSE IF Has(q, "period") /\ q.period = "week"
    THEN [kind |-> "since", from |-> Now - 7]
    ELSE [kind |-> "all"]

\* the date filter getTradeStats builds from its query
StatsFilter(q) ==
    IF Has(q, "period") /\ q.period = "week"
    THEN [kind |-> "since", from |-> Now - 7]
    ELSE [kind |-> "all"]

OverallFields ==
    { "totalTrades", "openTrades", "closedTrades", "winningTrades",
      "losingTrades", "totalProfit", "totalVolume", "totalCommissions",
      "averageProfit", "biggestWin", "biggestLoss", "averageHoldTime" }

\* the $group stage of the overall facet over the matched documents m; the
\* facet is empty when nothing matched
OverallGroup(m) ==
    [ totalTrades |-> Num(Len(m)),
      openTrades |-> Num(Len(SelectSeq(m, LAMBDA t : t.status = "OPEN"))),
      closedTrades |-> Num(Len(SelectSeq(m, LAMBDA t : t.status = "CLOSED"))),
      winningTrades |-> Num(Len(SelectSeq(m, LAMBDA t : t.profit > 0))),
      losingTrades |-> Num(Len(SelectSeq(m, LAMBDA t : t.profit < 0))),
      totalProfit |-> Num(SumSeq(ProfitsOf(m))),
      totalVolume |-> Num(SumSeq([i \in 1..Len(m) |->
                                     m[i].entryPrice * m[i].quantity])),
      totalCommissions |-> Num(SumSeq([i \in 1..Len(m) |->
                                          m[i].commission + m[i].fees])),
      averageProfit |-> JsDiv(SumSeq(ProfitsOf(m)), Len(m)),
      biggestWin |-> Num(MaxSeq(ProfitsOf(m))),
      biggestLoss |-> Num(MinSeq(ProfitsOf(m))),
      averageHoldTime |-> JsNull ]

\* data.overall[0] || {}: every field of the empty object reads undefined
Overall(m) ==
    IF m = <<>> THEN [f \in OverallFields |-> Undefined] ELSE OverallGroup(m)

WinRate(overall) ==
    IF JsGt0(overall.closedTrades)
    THEN JsTimes(JsQuot(overall.winningTrades, overall.closedTrades), Num(100))
    ELSE Num(0)

ProfitFactor(overall) ==
    IF JsGt0(overall.losingTrades)
    THEN JsAbs(JsQuot(overall.totalProfit,
                      JsTimes(overall.biggestLoss, overall.losingTrades)))
    ELSE IF JsGt0(overall.totalProfit) THEN Infinity ELSE Num(0)

Roi(overall) ==
    IF JsGt0(overall.totalVolume)
    THEN JsTimes(JsQuot(overall.totalProfit, overall.totalVolume), Num(100))
    ELSE Num(0)

\* the summary object of generateReport's response
Summary(m) ==
    LET overall == Overall(m)
        extra == [winRate |-> ToFixed2(WinRate(overall)),
                  profitFactor |-> ToFixed2(ProfitFactor(overall)),
                  roi |-> ToFixed2(Roi(overall)),
                  netProfit |-> JsMinus(overall.totalProfit,
                                        overall.totalCommissions)]
    IN  [f \in OverallFields \cup DOMAIN extra |->
            IF f \in DOMAIN extra THEN extra[f] ELSE overall[f]]

\* $limit of the bySymbol facet
SymbolLimit == 10

\* the $group stage of a breakdown: one group per distinct value of path f
GroupKeys(m, f) == {m[i][f] : i \in 1..Len(m)}
GroupOf(m, f, key) ==
    LET g == SelectSeq(m, LAMBDA t : t[f] = key)
    IN  [ _id |-> key,
          count |-> Len(g),
          totalProfit |-> SumSeq(ProfitsOf(g)),
          winCount |-> Len(SelectSeq(g, LAMBDA t : t.profit > 0)),
          avgProfit |-> JsDiv(SumSeq(ProfitsOf(g)), Len(g)),
          first |-> CHOOSE i \in 1..Len(m) :
                       m[i][f] = key /\ \A j \in 1..(i - 1) : m[j][f] # key ]
GroupsBy(m, f) == {GroupOf(m, f, key) : key \in GroupKeys(m, f)}

\* $sort: {totalProfit: -1}.  The order of groups with equal totalProfit is
\* not specified: tb picks it (by first or by last appearance in the scan)
TieBreaks == {"first", "last"}
Before(g, h, tb) ==
    \/ g.totalProfit > h.totalProfit
    \/ /\ g.totalProfit = h.totalProfit
       /\ IF tb = "first" THEN g.first <= h.first ELSE g.first >= h.first
RECURSIVE SortDesc(_, _)
SortDesc(G, tb) ==
    IF G = {} THEN <<>>
    ELSE LET top == CHOOSE g \in G : \A h \in G : Before(g, h, tb)
         IN  <<top>> \o SortDesc(G \ {top}, tb)

Take(s, n) == SubSeq(s, 1, IF Len(s) < n THEN Len(s) ELSE n)

\* the group as the response shows it
Shown(g) == [f \in DOMAIN g \ {"first"} |-> g[f]]
ShownAll(s) == [i \in 1..Len(s) |-> Shown(s[i])]

\* a bySymbol facet that keeps one group fewer
TopSymbolsShort(m, tb) ==
    ShownAll(Take(SortDesc(GroupsBy(m, "symbol"), tb), SymbolLimit - 1))

TopSymbols(m, tb) == ShownAll(Take(SortDesc(GroupsBy(m, "symbol"), tb), SymbolLimit))
Strategies(m, tb) == ShownAll(SortDesc(GroupsBy(m, "strategy"), tb))

\* generateReport: one aggregation over the caller's trades, no write
generateReport(u, q, tb) ==
    LET m == Matched(u, ReportFilter(q))
    IN  /\ res' = [code |-> 200, kind |-> "generateReport", query |-> q,
                   body |-> [summary |-> Summary(m),
                             topSymbols |-> TopSymbols(m, tb),
                             strategies |-> Strategies(m, tb)]]
        /\ UNCHANGED <<trades, autoCalc, now, infra>>

StatsFields == OverallFields \ {"totalVolume", "totalCommissions"}

\* getTradeStats: stats[0] || the all-zero object, then winRate
TradeStats(m) ==
    LET result == IF m = <<>> THEN [f \in StatsFields |-> Num(0)]
                  ELSE [f \in StatsFields |-> OverallGroup(m)[f]]
    IN  [f \in StatsFields \cup {"winRate"} |->
            IF f = "winRate" THEN WinRate(result) ELSE result[f]]

\* a getTradeStats that loads the caller's documents and saves them back
getTradeStatsSaving(u, q) ==
    /\ res' = [code |-> 200, kind |-> "getTradeStats", query |-> q,
               body |-> TradeStats(Matched(u, StatsFilter(q)))]
    /\ trades' = [i \in 1..Len(trades) |->
                     IF trades[i].user = u
                     THEN PreSave(trades[i], autoCalc[u]) ELSE trades[i]]
    /\ UNCHANGED <<autoCalc, now, infra>>

getTradeStats(u, q) ==
    /\ res' = [code |-> 200, kind |-> "getTradeStats", query |-> q,
               body |-> TradeStats(Matched(u, StatsFilter(q)))]
    /\ UNCHANGED <<trades, autoCalc, now, infra>>

\* the statistics object of getTradesBySymbol
SymbolStats(ts) ==
    LET closed == Len(SelectSeq(ts, LAMBDA t : t.status = "CLOSED"))
    IN  [ totalTrades |-> Num(Len(ts)),
          openTrades |-> Num(Len(SelectSeq(ts, LAMBDA t : t.status = "OPEN"))),
          closedTrades |-> Num(closed),
          totalProfit |-> Num(SumSeq(ProfitsOf(ts))),
          winRate |-> IF closed > 0
                      THEN JsTimes(JsDiv(Len(SelectSeq(ts, LAMBDA t : t.profit > 0)),
                                         closed), Num(100))
                      ELSE Num(0) ]

getTradesBySymbol(u, symbol) ==
    LET ts == SelectSeq(trades, LAMBDA t : t.user = u /\ t.symbol = ToUpper(symbol))
    IN  /\ IF ts = <<>>
           THEN res' = Reply(404)
           ELSE res' = [code |-> 200, kind |-> "getTradesBySymbol",
                        query |-> ToUpper(symbol), body |-> SymbolStats(ts)]
        /\ UNCHANGED <<trades, autoCalc, now, infra>>

\* --------------------------------------------------------- the comparison
\* the calendar around the clock: December 2023 and January 2024 both have
\* DaysInMonth days, and day 1 is 1 January 2024
DaysInMonth == 31
MonthStart(d) == d - ((d - 1) % DaysInMonth)
MonthEnd(d) == MonthStart(d) + DaysInMonth - 1
\* dayjs().subtract(1, 'month')
SubtractMonth(d) == d - DaysInMonth

\* the $match of a month: startOf('month') <= entryDate <= endOf('month')
MonthWindow(d) == [kind |-> "range", from |-> MonthStart(d), to |-> MonthEnd(d)]

\* the $group of a window, or the all-zero object when nothing matched
WindowGroup(m) ==
    IF m = <<>>
    THEN [totalTrades |-> 0, totalProfit |-> 0, winningTrades |-> 0]
    ELSE [totalTrades |-> Len(m),
          totalProfit |-> SumSeq(ProfitsOf(m)),
          winningTrades |-> Len(SelectSeq(m, LAMBDA t : t.profit > 0))]

\* previous > 0 ? ((current - previous) / previous) * 100 : 0
ChangePercent(current, previous) ==
    IF previous > 0
    THEN JsTimes(JsDiv(current - previous, previous), Num(100))
    ELSE Num(0)

\* totalTrades > 0 ? (winningTrades / totalTrades) * 100 : 0
WindowWinRate(w) ==
    IF w.totalTrades > 0
    THEN JsTimes(JsDiv(w.winningTrades, w.totalTrades), Num(100))
    ELSE Num(0)

\* the comparison object
Comparison(current, previous) ==
    [ trades |->
        [ current |-> current.totalTrades,
          previous |-> previous.totalTrades,
          change |-> current.totalTrades - previous.totalTrades,
          changePercent |->
              ChangePercent(current.totalTrades, previous.totalTrades) ],
      profit |->
        [ current |-> current.totalProfit,
          previous |-> previous.totalProfit,
          change |-> current.totalProfit - previous.totalProfit,
          changePercent |->
              ChangePercent(current.totalProfit, previous.totalProfit) ],
      winRate |->
        [ current |-> WindowWinRate(current),
          previous |-> WindowWinRate(previous) ] ]

\* getPerformanceComparison: this month against the month before, no write
getPerformanceComparison(u) ==
    LET currentMonth == Now
        previousMonth == SubtractMonth(currentMonth)
        current == WindowGroup(Matched(u, MonthWindow(currentMonth)))
        previous == WindowGroup(Matched(u, MonthWindow(previousMonth)))
    IN  /\ res' = [code |-> 200, kind |-> "getPerformanceComparison",
                   query |-> NoBody,
                   body |-> [currentMonth |-> MonthStart(currentMonth),
                             previousMonth |-> MonthStart(previousMonth),
                             comparison |-> Comparison(current, previous)]]
        /\ UNCHANGED <<trades, autoCalc, now, infra>>

\* ------------------------------------------------------------ the export
\* Array.prototype.join
RECURSIVE Join(_, _)
Join(parts, sep) ==
    IF parts = <<>> THEN <<>>
    ELSE IF Len(parts) = 1 THEN parts[1]
    ELSE parts[1] \o sep \o Join(Tail(parts), sep)

\* String(n) of an integer
Digits == <<"0", "1", "2", "3", "4", "5", "6", "7", "8", "9">>
RECURSIVE NatText(_)
NatText(n) ==
    IF n < 10 THEN <<Digits[n + 1]>>
    ELSE NatText(n \div 10) \o <<Digits[(n % 10) + 1]>>
NumText(n) == IF n < 0 THEN <<"-">> \o NatText(-n) ELSE NatText(n)

\* String(s) of an enum value
Spell ==
    [ BUY |-> <<"B", "U", "Y">>, SELL |-> <<"S", "E", "L", "L">>,
      OPEN |-> <<"O", "P", "E", "N">>,
      CLOSED |-> <<"C", "L", "O", "S", "E", "D">>,
      CANCELLED |-> <<"C", "A", "N", "C", "E", "L", "L", "E", "D">> ]

\* date.toISOString().split('T')[0]: day d of the model's calendar is the
\* d-th of January 2024
DateText(d) ==
    <<"2", "0", "2", "4", "-", "0", "1", "-">>
        \o (IF d < 10 THEN <<"0">> ELSE <<>>) \o NatText(d)

\* String.prototype.replace(/,/g, ';')
ReplaceCommas(s) == [i \in 1..Len(s) |-> IF s[i] = "," THEN ";" ELSE s[i]]

csvHeader ==
    << "S", "y", "m", "b", "o", "l", ",", "T", "y", "p", "e", ",", "S",
       "t", "r", "a", "t", "e", "g", "y", ",", "E", "n", "t", "r", "y",
       " ", "D", "a", "t", "e", ",", "E", "n", "t", "r", "y", " ", "P",
       "r", "i", "c", "e", ",", "E", "x", "i", "t", " ", "D", "a", "t",
       "e", ",", "E", "x", "i", "t", " ", "P", "r", "i", "c", "e", ",",
       "Q", "u", "a", "n", "t", "i", "t", "y", ",", "P", "r", "o", "f",
       "i", "t", ",", "S", "t", "a", "t", "u", "s", ",", "N", "o", "t",
       "e", "s" >>
        \o <<"\n">>

\* the array of one CSV row, before join(','): undefined and null join as ''
CsvFields(trade) ==
    << trade.symbol,
       Spell[trade.type],
       IF IsSome(trade.strategy) THEN Val(trade.strategy) ELSE <<>>,
       DateText(trade.entryDate),
       NumText(trade.entryPrice),
       IF IsSome(trade.exitDate) THEN DateText(Val(trade.exitDate)) ELSE <<>>,
       IF Truthy(trade.exitPrice) THEN NumText(Val(trade.exitPrice)) ELSE <<>>,
       NumText(trade.quantity),
       NumText(trade.profit),
       Spell[trade.status],
       ReplaceCommas(IF IsSome(trade.notes) THEN Val(trade.notes) ELSE <<>>) >>

CsvRow(trade) == Join(CsvFields(trade), <<",">>)

\* sort({entryDate: -1}); the order of trades with equal entryDate is not
\* specified: tb picks it (in the order of the collection or against it)
RECURSIVE SortByEntryDate(_, _)
SortByEntryDate(m, tb) ==
    IF m = <<>> THEN <<>>
    ELSE LET best == {i \in 1..Len(m) :
                         \A j \in 1..Len(m) : m[j].entryDate <= m[i].entryDate}
             k == IF tb = "first"
                  THEN CHOOSE i \in best : \A j \in best : i <= j
                  ELSE CHOOSE i \in best : \A j \in best : i >= j
         IN  <<m[k]>> \o SortByEntryDate(
                 [i \in 1..(Len(m) - 1) |-> IF i < k THEN m[i] ELSE m[i + 1]], tb)

\* the date filter exportTrades builds from its query
ExportFilter(q) ==
    IF Has(q, "startDate") /\ Has(q, "endDate")
    THEN [kind |-> "range", from |-> q.startDate, to |-> q.endDate]
    ELSE [kind |-> "all"]

\* the documents exportTrades finds, in the order it sends them
Exported(u, q, tb) == SortByEntryDate(Matched(u, ExportFilter(q)), tb)

\* exportTrades: the CSV text when format is 'csv', else the documents
exportTrades(u, q, tb) ==
    LET found == Exported(u, q, tb)
    IN  /\ IF Has(q, "format") /\ q.format = "csv"
           THEN res' = [code |-> 200, kind |-> "exportTrades", query |-> q,
                        order |-> tb,
                        body |-> csvHeader \o
                            Join([i \in 1..Len(found) |-> CsvRow(found[i])],
                                 <<"\n">>)]
           ELSE res' = [code |-> 200, kind |-> "exportJson", query |-> q,
                        order |-> tb, body |-> found]
        /\ UNCHANGED <<trades, autoCalc, now, infra>>

\* ------------------------------------------------------------- listings
\* { user: req.user.id, ...req.query } without the paging and sorting fields:
\* a field of the query replaces the field of the same name before it
excludedFields == {"page", "sort", "limit", "fields"}
QueryObj(u, q) ==
    LET all == Merge([user |-> u], q)
    IN  [f \in DOMAIN all \ excludedFields |-> all[f]]

\* Trade.find(queryObj): the documents equal to the filter on each of its paths
Find(queryObj) ==
    SelectSeq(trades, LAMBDA t :
        \A f \in DOMAIN queryObj \cap SchemaPaths : t[f] = queryObj[f])

\* APIFeatures(query, req.query).filter().sort().limitFields().paginate():
\* the documents found, cut to the page size the query asks for
ApiFeatures(found, q) == IF Has(q, "limit") THEN Take(found, q.limit) ELSE found

\* getAllTrades: the documents the filter built from the query finds; no write
getAllTrades(u, q) ==
    /\ res' = [code |-> 200, kind |-> "getAllTrades", query |-> q,
               body |-> ApiFeatures(Find(QueryObj(u, q)), q)]
    /\ UNCHANGED <<trades, autoCalc, now, infra>>

\* getTradesByDateRange: the caller's trades of a date range, newest first
getTradesByDateRange(u, q, tb) ==
    /\ IF ~(Has(q, "startDate") /\ Has(q, "endDate"))
       THEN res' = Reply(400)
       ELSE res' = [code |-> 200, kind |-> "getTradesByDateRange", query |-> q,
                    body |-> SortByEntryDate(Matched(u,
                        [kind |-> "range", from |-> q.startDate,
                         to |-> q.endDate]), tb)]
    /\ UNCHANGED <<trades, autoCalc, now, infra>>

\* ------------------------------------------ the daily and monthly reports
Reverse(s) == [i \in 1..Len(s) |-> s[Len(s) + 1 - i]]
OtherTie(tb) == IF tb = "first" THEN "last" ELSE "first"

\* [...new Set(values)]: the distinct values in the order of first appearance
RECURSIVE Distinct(_)
Distinct(s) ==
    IF s = <<>> THEN <<>>
    ELSE LET init == Distinct(SubSeq(s, 1, Len(s) - 1))
             last == s[Len(s)]
         IN  IF \E i \in 1..Len(init) : init[i] = last THEN init
             ELSE Append(init, last)

\* getDailyReport: the caller's trades of one day, oldest first, and their
\* summary; the day is the query's date or today
getDailyReport(u, q, tb) ==
    LET targetDate == IF Has(q, "date") THEN q.date ELSE Now
        found == Reverse(SortByEntryDate(
                     Matched(u, [kind |-> "range", from |-> targetDate,
                                 to |-> targetDate]), OtherTie(tb)))
        summary ==
            [ date |-> targetDate,
              totalTrades |-> Len(found),
              openTrades |-> Len(SelectSeq(found, LAMBDA t : t.status = "OPEN")),
              closedTrades |->
                  Len(SelectSeq(found, LAMBDA t : t.status = "CLOSED")),
              totalProfit |-> SumSeq(ProfitsOf(found)),
              symbols |-> Distinct([i \in 1..Len(found) |-> found[i].symbol]),
              strategies |->
                  Distinct([i \in 1..Len(found) |-> found[i].strategy]) ]
    IN  /\ res' = [code |-> 200, kind |-> "getDailyReport", query |-> q,
                   body |-> [summary |-> summary, trades |-> found]]
        /\ UNCHANGED <<trades, autoCalc, now, infra>>

\* sort({profit: -1}); tb orders the documents of equal profit
RECURSIVE SortByProfit(_, _)
SortByProfit(m, tb) ==
    IF m = <<>> THEN <<>>
    ELSE LET best == {i \in 1..Len(m) :
                         \A j \in 1..Len(m) : m[j].profit <= m[i].profit}
             k == IF tb = "first"
                  THEN CHOOSE i \in best : \A j \in best : i <= j
                  ELSE CHOOSE i \in best : \A j \in best : i >= j
         IN  <<m[k]>> \o SortByProfit(
                 [i \in 1..(Len(m) - 1) |-> IF i < k THEN m[i] ELSE m[i + 1]], tb)

\* $limit of topPerformers and worstPerformers
PerformersLimit == 5

\* dayjs(`${year}-${month}-01`): every month of the model's calendar has
\* DaysInMonth days
FirstOfMonth(year, month) ==
    1 + ((year - 2024) * 12 + (month - 1)) * DaysInMonth

\* $dayOfMonth
DayOfMonth(d) == d - MonthStart(d) + 1

\* the dailyBreakdown facet: one group per day of the month, in day order
RECURSIVE DailyBreakdown(_, _)
DailyBreakdown(m, day) ==
    IF day > DaysInMonth THEN <<>>
    ELSE LET g == SelectSeq(m, LAMBDA t : DayOfMonth(t.entryDate) = day)
         IN  (IF g = <<>> THEN <<>>
              ELSE << [_id |-> day, trades |-> Len(g),
                       profit |-> SumSeq(ProfitsOf(g))] >>)
                 \o DailyBreakdown(m, day + 1)

\* the summary facet of the month, or {} when nothing matched
MonthlySummary(m) ==
    IF m = <<>>
    THEN [f \in {"totalTrades", "totalProfit", "winningTrades", "totalVolume"}
             |-> Undefined]
    ELSE [ totalTrades |-> Num(Len(m)),
           totalProfit |-> Num(SumSeq(ProfitsOf(m))),
           winningTrades |-> Num(Len(SelectSeq(m, LAMBDA t : t.profit > 0))),
           totalVolume |-> Num(SumSeq([i \in 1..Len(m) |->
                                          m[i].entryPrice * m[i].quantity])) ]

\* getMonthlyReport: one aggregation over the caller's trades of a month
getMonthlyReport(u, q, tb) ==
    LET targetDate == IF Has(q, "year") /\ Has(q, "month")
                      THEN FirstOfMonth(q.year, q.month) ELSE Now
        m == Matched(u, MonthWindow(targetDate))
    IN  /\ res' =
              [code |-> 200, kind |-> "getMonthlyReport", query |-> q,
               body |->
                 [ month |-> MonthStart(targetDate),
                   summary |-> MonthlySummary(m),
                   dailyBreakdown |-> DailyBreakdown(m, 1),
                   topPerformers |->
                       Take(SortByProfit(
                                SelectSeq(m, LAMBDA t : t.profit > 0), tb),
                            PerformersLimit),
                   worstPerformers |->
                       Take(Reverse(SortByProfit(
                                SelectSeq(m, LAMBDA t : t.profit < 0),
                                OtherTie(tb))),
                            PerformersLimit) ]]
        /\ UNCHANGED <<trades, autoCalc, now, infra>>

\* ---------------------------------------------------------------- requests
BaseBody(type) ==
    [symbol |-> <<"a">>, type |-> type, entryDate |-> 1, entryPrice |-> 2,
     quantity |-> 3, commission |-> 1, fees |-> 2]

ClosedAt(price) ==
    [status |-> "CLOSED", exitPrice |-> Some(price), exitDate |-> Some(2)]

\* a manually entered profit
ManualProfit == [profit |-> 7]

\* request bodies of POST /api/trades: open and closed trades of both types,
\* one closed at price 0, two with a manual profit, one lacking required paths
CreateBodies ==
    { Merge(BaseBody(ty), e) : ty \in {"BUY", "SELL"}, e \in {NoBody, ClosedAt(4)} }
    \cup { Merge(BaseBody("BUY"), ClosedAt(0)) }
    \cup { Merge(Merge(BaseBody("BUY"), e), ManualProfit) : e \in {NoBody, ClosedAt(4)} }
    \cup { [type |-> "BUY", entryPrice |-> 2] }

\* request bodies of PATCH /api/trades/:id; the last one fails a validator
UpdateBodies ==
    { [status |-> "OPEN"],
      [status |-> "CLOSED"],
      ClosedAt(4),
      ManualProfit,
      [exitPrice |-> Some(-1)] }

\* request bodies of PATCH /api/trades/:id/close and /bulk/close
CloseBodies ==
    { NoBody,
      [exitPrice |-> Some(0)],
      [exitPrice |-> Some(4)],
      [exitPrice |-> Some(4), exitDate |-> Some(2)] }

BulkBodies == { [exitPrice |-> Some(0)], [exitPrice |-> Some(4)] }

ReportQueries == { NoBody, [startDate |-> 1, endDate |-> 1], [period |-> "week"] }

TradeIds == 1..MaxTrades

\* ------------------------------------------------------------ Spec
Init ==
    /\ trades = <<>>
    /\ autoCalc \in [Users -> BOOLEAN]
    /\ res = Reply(0)
    /\ now = FirstDay
    /\ InfraIdle

\* u1 is the account under study; the other account posts one kind of trade
BodiesOf(u) == IF u = "u1" THEN CreateBodies ELSE {BaseBody("BUY")}

CreateTrade ==
    \E u \in Users : \E body \in BodiesOf(u) :
        Len(trades) < MaxTrades /\ createTrade(u, body)
UpdateTrade ==
    \E u \in Users, id \in TradeIds, body \in UpdateBodies : updateTrade(u, id, body)
DeleteTrade == \E u \in Users, id \in TradeIds : deleteTrade(u, id)
CloseTrade ==
    \E u \in Users, id \in TradeIds, body \in CloseBodies : closeTrade(u, id, body)
BulkCloseTrades ==
    \E u \in Users, ids \in SUBSET TradeIds, body \in BulkBodies :
        bulkCloseTrades(u, ids, body)
SaveTrade == \E u \in Users, id \in TradeIds : saveTrade(u, id)
UpdateMe == \E u \in Users, flag \in BOOLEAN : updateMe(u, flag)

Next ==
    \/ CreateTrade
    \/ UpdateTrade
    \/ DeleteTrade
    \/ CloseTrade
    \/ BulkCloseTrades
    \/ SaveTrade
    \/ UpdateMe

Spec == Init /\ [][Next]_vars

\* ------------------------------------------------------------ SpecAuto
\* the same trade operations while every account keeps autoCalculateProfit on
InitAuto ==
    /\ trades = <<>>
    /\ autoCalc = [u \in Users |-> TRUE]
    /\ res = Reply(0)
    /\ now = FirstDay
    /\ InfraIdle

NextAuto ==
    \/ CreateTrade
    \/ UpdateTrade
    \/ DeleteTrade
    \/ CloseTrade
    \/ BulkCloseTrades
    \/ SaveTrade

SpecAuto == InitAuto /\ [][NextAuto]_vars

\* ---------------------------------------------------------------- claims
\* the profit the P&L formula gives a closed trade
FormulaProfit(t) ==
    IF t.type = "BUY"
    THEN (Val(t.exitPrice) - t.entryPrice) * t.quantity - t.commission - t.fees
    ELSE (t.entryPrice - Val(t.exitPrice)) * t.quantity - t.commission - t.fees

ClosedWithExit(t) == t.status = "CLOSED" /\ IsSome(t.exitPrice)

\* C1: every stored CLOSED BUY trade whose owner has autoCalculateProfit on
\* has profit = (exitPrice - entryPrice) * quantity - commission - fees,
\* whichever operation closed it, exitPrice 0 included
C1_BuyProfitFormula ==
    \A i \in 1..Len(trades) :
        (ClosedWithExit(trades[i]) /\ trades[i].type = "BUY"
            /\ autoCalc[trades[i].user])
        => trades[i].profit = FormulaProfit(trades[i])

\* C2: every stored CLOSED SELL trade whose owner has autoCalculateProfit on
\* has profit = (entryPrice - exitPrice) * quantity - commission - fees
C2_SellProfitFormula ==
    \A i \in 1..Len(trades) :
        (ClosedWithExit(trades[i]) /\ trades[i].type = "SELL"
            /\ autoCalc[trades[i].user])
        => trades[i].profit = FormulaProfit(trades[i])

\* ------------------------------------------------------------ SpecReport
\* the reports over collections of trades with manually entered profits
Caller == "u1"

ReportBase(sym, date, price) ==
    [symbol |-> sym, type |-> "BUY", entryDate |-> date, entryPrice |-> price,
     quantity |-> 3, commission |-> 1, fees |-> 2]

\* closed trades with a win or a loss, a closed break-even trade of no
\* volume, an open trade and a cancelled trade that carry a profit
ReportBodies ==
    { Merge(Merge(ReportBase(<<"A">>, 1, 2), ClosedAt(4)), [profit |-> p]) :
        p \in {100, -40, 25, -10} }
    \cup { Merge(ReportBase(<<"B">>, 1, 0), ClosedAt(0)),
           Merge(ReportBase(<<"A">>, 5, 2), [profit |-> 25]),
           Merge(ReportBase(<<"B">>, 1, 2),
                 [status |-> "CANCELLED", profit |-> -10]) }

InitReport ==
    /\ trades = <<>>
    /\ autoCalc = [u \in Users |-> FALSE]
    /\ res = Reply(0)
    /\ now = FirstDay
    /\ InfraIdle

AddReportTrade ==
    \E body \in ReportBodies :
        Len(trades) < MaxReportTrades /\ createTrade(Caller, body)
GenerateReport ==
    \E q \in ReportQueries, tb \in TieBreaks : generateReport(Caller, q, tb)
GetTradeStats == \E q \in ReportQueries : getTradeStats(Caller, q)
GetTradesBySymbol == \E sym \in {<<"a">>, <<"b">>} : getTradesBySymbol(Caller, sym)

NextReport ==
    \/ AddReportTrade
    \/ GenerateReport
    \/ GetTradeStats
    \/ GetTradesBySymbol

SpecReport == InitReport /\ [][NextReport]_vars

\* the profit a request body enters by hand, 0 (the default) when it has none
Entered(body) == IF Has(body, "profit") THEN body.profit ELSE 0

\* C3: while the owner's autoCalculateProfit is off, a trade's profit is the
\* value entered by hand: a create stores the body's profit, an update that
\* carries a profit stores that profit, and every other operation (save,
\* close, bulk close, an update of other paths) leaves the stored profit as
\* it was
C3_ManualProfitKept ==
    [][ /\ \A i \in 1..Len(trades) : \A j \in 1..Len(trades') :
            (trades'[j]._id = trades[i]._id /\ ~autoCalc[trades[i].user])
            => \/ trades'[j].profit = trades[i].profit
               \/ \E u \in Users, body \in UpdateBodies :
                     /\ Has(body, "profit")
                     /\ updateTrade(u, trades[i]._id, body)
                     /\ trades'[j].profit = body.profit
        /\ \A u \in Users : \A body \in BodiesOf(u) :
            (Len(trades') = Len(trades) + 1 /\ ~autoCalc[u]
                /\ createTrade(u, body))
            => trades'[Len(trades')].profit = Entered(body) ]_vars

\* a closed trade of an account with the setting off carries the profit that
\* was entered by hand, not the one the formula gives
C3_Witness ==
    \E i \in 1..Len(trades) :
        /\ ClosedWithExit(trades[i]) /\ Truthy(trades[i].exitPrice)
        /\ ~autoCalc[trades[i].user]
        /\ trades[i].profit = ManualProfit.profit
        /\ trades[i].profit # FormulaProfit(trades[i])
        /\ res.code = 200

\* ----------------------------------------------- claims about the reports
\* the collection a report response was computed over
ReportedOver ==
    IF IsReply(res, "generateReport") THEN Matched(Caller, ReportFilter(res.query))
    ELSE IF IsReply(res, "getTradeStats") THEN Matched(Caller, StatsFilter(res.query))
    ELSE IF IsReply(res, "getTradesBySymbol")
    THEN SelectSeq(trades, LAMBDA t : t.user = Caller /\ t.symbol = res.query)
    ELSE <<>>

ClosedOf(m) == SelectSeq(m, LAMBDA t : t.status = "CLOSED")
WinnersOf(m) == SelectSeq(ClosedOf(m), LAMBDA t : t.profit > 0)
LosersOf(m) == SelectSeq(ClosedOf(m), LAMBDA t : t.profit < 0)
GrossWin(m) == SumSeq(ProfitsOf(WinnersOf(m)))
GrossLoss(m) == SumSeq(ProfitsOf(LosersOf(m)))

\* a <= b of two JavaScript numbers (false when either is not a number)
JsLe(a, b) == IsNum(a) /\ IsNum(b) /\ a.n * b.d <= b.n * a.d

\* C4: when the collection has a losing closed trade, the profitFactor that
\* generateReport reports is sum(profit of winners) / |sum(profit of losers)|
C4_ProfitFactorFromSums ==
    IsReply(res, "generateReport") =>
        LET m == ReportedOver
        IN  LosersOf(m) # <<>> =>
                res.body.summary.profitFactor
                    = ToFixed2(JsDiv(GrossWin(m), Abs(GrossLoss(m))))

\* C5: the profitFactor that generateReport reports is the infinite sentinel
\* exactly when the collection has a winning closed trade and no losing one,
\* and it is 0 whenever the winners' total profit is 0
C5_ProfitFactorSentinel ==
    IsReply(res, "generateReport") =>
        LET m == ReportedOver
            pf == res.body.summary.profitFactor
        IN  /\ pf = Infinity <=> (WinnersOf(m) # <<>> /\ LosersOf(m) = <<>>)
            /\ GrossWin(m) = 0 => pf = Num(0)

\* C6: over a non-empty collection, the counts that generateReport and
\* getTradeStats report satisfy winningTrades + losingTrades <= closedTrades
C6_WinLossWithinClosed ==
    ((IsReply(res, "generateReport") \/ IsReply(res, "getTradeStats"))
        /\ ReportedOver # <<>>) =>
        LET st == IF IsReply(res, "generateReport") THEN res.body.summary
                  ELSE res.body
        IN  /\ IsNum(st.winningTrades) /\ IsNum(st.losingTrades)
            /\ JsLe(Num(st.winningTrades.n + st.losingTrades.n), st.closedTrades)

\* C7: the winRate of generateReport, getTradeStats and getTradesBySymbol is
\* a number in [0, 100], and it is 0 when the collection has no closed trade
C7_WinRateInRange ==
    (IsReply(res, "generateReport") \/ IsReply(res, "getTradeStats")
        \/ IsReply(res, "getTradesBySymbol")) =>
        LET w == IF IsReply(res, "generateReport") THEN res.body.summary.winRate
                 ELSE res.body.winRate
        IN  /\ JsLe(Num(0), w) /\ JsLe(w, Num(100))
            /\ ClosedOf(ReportedOver) = <<>> => w = Num(0)

\* a collection with no trade, no closed trade or no volume
Degenerate(m) ==
    \/ ClosedOf(m) = <<>>
    \/ \A i \in 1..Len(m) : m[i].entryPrice * m[i].quantity = 0

\* C8: over a degenerate collection every statistic that generateReport and
\* getTradeStats report (averageHoldTime aside) is a number, the profit factor
\* possibly its infinite sentinel, and over the empty collection totalTrades,
\* winRate, profitFactor and averageProfit are 0
C8_DegenerateDefined ==
    ((IsReply(res, "generateReport") \/ IsReply(res, "getTradeStats"))
        /\ Degenerate(ReportedOver)) =>
        LET st == IF IsReply(res, "generateReport") THEN res.body.summary
                  ELSE res.body
            zero == {"totalTrades", "winRate", "profitFactor", "averageProfit"}
        IN  /\ \A f \in DOMAIN st \ {"averageHoldTime"} :
                   IsNum(st[f]) \/ (f = "profitFactor" /\ st[f] = Infinity)
            /\ ReportedOver = <<>> =>
                   \A f \in zero \cap DOMAIN st : st[f] = Num(0)

\* ----------------------------------------------------------- SpecSymbols
\* reports over collections of many symbols
SymbolNames ==
    << <<"A">>, <<"B">>, <<"C">>, <<"D">>, <<"E">>, <<"F">>, <<"G">>,
       <<"H">>, <<"I">>, <<"J">>, <<"K">>, <<"L">>, <<"M">> >>

\* the next trade is the first one of a new symbol, with a profit of its
\* own, or one more losing trade of the first symbol
SymbolBodies ==
    LET n == Cardinality(GroupKeys(trades, "symbol"))
    IN  { Merge(ReportBase(SymbolNames[n + 1], 1, 2), [profit |-> n + 1]),
          Merge(ReportBase(SymbolNames[1], 5, 2), [profit |-> -1]) }

AddSymbolTrade ==
    \E body \in SymbolBodies :
        Len(trades) < MaxSymbolTrades /\ createTrade(Caller, body)
GenerateSymbolReport ==
    \E q \in {NoBody, [period |-> "week"]}, tb \in TieBreaks :
        generateReport(Caller, q, tb)

NextSymbols ==
    \/ AddSymbolTrade
    \/ GenerateSymbolReport

SpecSymbols == InitReport /\ [][NextSymbols]_vars

\* the sum of totalProfit over the by-symbol groups of a report
GroupProfitSum(groups) ==
    SumSeq([i \in 1..Len(groups) |-> groups[i].totalProfit])

ExportBodies ==
    { Merge(ReportBase(<<"A">>, 1, 2), ClosedAt(4)),
      Merge(ReportBase(<<"A">>, 1, 2), ClosedAt(0)),
      ReportBase(<<"B">>, 2, 12),
      Merge(ReportBase(<<"B">>, 1, 2), [strategy |-> Some(<<"x", ",", "y">>)]),
      Merge(ReportBase(<<"A">>, 2, 2),
            [notes |-> Some(<<"n", ",", "n">>), profit |-> -10,
             status |-> "CANCELLED"]),
      Merge(ReportBase(<<"B">>, 2, 2), [notes |-> Some(<<"n", "\n", "n">>)]) }

ExportQueries ==
    { NoBody, [format |-> "csv"],
      [format |-> "csv", startDate |-> 2, endDate |-> 2] }

AddExportTrade ==
    \E body \in ExportBodies :
        Len(trades) < MaxExportTrades /\ createTrade(Caller, body)
ExportTrades ==
    \E q \in ExportQueries, tb \in TieBreaks : exportTrades(Caller, q, tb)

NextExport ==
    \/ AddExportTrade
    \/ DeleteTrade
    \/ ExportTrades

SpecExport == InitReport /\ [][NextExport]_vars

\* String.prototype.split on a one-character separator
RECURSIVE Split(_, _)
Split(text, sep) ==
    IF \A i \in 1..Len(text) : text[i] # sep THEN <<text>>
    ELSE LET k == CHOOSE i \in 1..Len(text) :
                      text[i] = sep /\ \A j \in 1..(i - 1) : text[j] # sep
         IN  <<SubSeq(text, 1, k - 1)>>
                 \o Split(SubSeq(text, k + 1, Len(text)), sep)

\* the number a field spells: nothing for the empty field, not a number
\* (ok = FALSE) for a field that is not a string of digits
IsDigit(c) == \E d \in 1..10 : Digits[d] = c
DigitVal(c) == (CHOOSE d \in 1..10 : Digits[d] = c) - 1
RECURSIVE NatOf(_)
NatOf(t) ==
    IF t = <<>> THEN 0 ELSE 10 * NatOf(SubSeq(t, 1, Len(t) - 1)) + DigitVal(t[Len(t)])
ParseNum(t) ==
    IF t = <<>> THEN [ok |-> TRUE, v |-> None]
    ELSE IF \A i \in 1..Len(t) : IsDigit(t[i])
    THEN [ok |-> TRUE, v |-> Some(NatOf(t))]
    ELSE [ok |-> FALSE, v |-> None]

\* the data rows of a CSV text: its lines after the header, blank lines aside
DataRows(text) ==
    SelectSeq(Tail(Split(text, "\n")), LAMBDA line : line # <<>>)

\* a row read back by the fixed column order of the header
ReadRow(line) ==
    LET f == Split(line, ",")
        at(k) == IF k <= Len(f) THEN f[k] ELSE <<>>
    IN  [ symbol |-> at(1), type |-> at(2), entryPrice |-> ParseNum(at(5)),
          exitPrice |-> ParseNum(at(7)), quantity |-> ParseNum(at(8)),
          status |-> at(10) ]

\* what reading a trade's row back has to give
RowOf(trade) ==
    [ symbol |-> trade.symbol, type |-> Spell[trade.type],
      entryPrice |-> [ok |-> TRUE, v |-> Some(trade.entryPrice)],
      exitPrice |-> [ok |-> TRUE, v |-> trade.exitPrice],
      quantity |-> [ok |-> TRUE, v |-> Some(trade.quantity)],
      status |-> Spell[trade.status] ]

\* C10: the CSV that exportTrades sends has one data row per exported trade,
\* and reading a row back by the column order gives the trade's symbol, type,
\* entryPrice, exitPrice, quantity and status, exitPrice 0 included
C10_ExportRoundTrip ==
    IsReply(res, "exportTrades") =>
        LET rows == DataRows(res.body)
            found == Exported(Caller, res.query, res.order)
        IN  /\ Len(rows) = Len(found)
            /\ \A i \in 1..Len(rows) : ReadRow(rows[i]) = RowOf(found[i])

\* C11: the CSV that exportTrades sends has one line per exported trade after
\* the header, and each of these lines has as many comma-separated fields as
\* the header (11), whatever the strategy and the notes of the trades hold
C11_CsvOneLineElevenFields ==
    IsReply(res, "exportTrades") =>
        LET rows == DataRows(res.body)
            found == Exported(Caller, res.query, res.order)
            width == Len(Split(Head(Split(csvHeader, "\n")), ","))
        IN  /\ width = 11
            /\ Len(rows) = Len(found)
            /\ \A i \in 1..Len(rows) : Len(Split(rows[i], ",")) = width

\* ----------------------------------------------------------- SpecCompare
\* the comparison over trades of this month, of the month before (days -30
\* to 0) and of an earlier month
CompareBodies ==
    { Merge(Merge(ReportBase(<<"A">>, 1, 2), ClosedAt(4)), [profit |-> 25]),
      Merge(Merge(ReportBase(<<"A">>, 1, 2), ClosedAt(4)), [profit |-> -40]),
      ReportBase(<<"A">>, 5, 2),
      Merge(ReportBase(<<"B">>, 0, 2),
            [status |-> "CLOSED", exitPrice |-> Some(4), exitDate |-> Some(1),
             profit |-> 100]),
      Merge(ReportBase(<<"B">>, -1, 2),
            [status |-> "CLOSED", exitPrice |-> Some(4), exitDate |-> Some(0),
             profit |-> -10]),
      Merge(ReportBase(<<"B">>, -40, 2), [profit |-> 25]) }

AddCompareTrade ==
    \E body \in CompareBodies :
        Len(trades) < MaxCompareTrades /\ createTrade(Caller, body)
GetPerformanceComparison == getPerformanceComparison(Caller)

NextCompare ==
    \/ AddCompareTrade
    \/ GetPerformanceComparison

SpecCompare == InitReport /\ [][NextCompare]_vars

\* the caller's trades of the month of the clock and of the month before
CurrentWindow == Matched(Caller, MonthWindow(now))
PreviousWindow == Matched(Caller, MonthWindow(now - DaysInMonth))

\* (current - previous) / previous * 100, and 0 when previous is 0
PercentChange(current, previous) ==
    IF previous = 0 THEN Num(0) ELSE Frac((current - previous) * 100, previous)

\* C12: the changePercent of the trades and of the profit that
\* getPerformanceComparison reports is 0 when the previous month's value is
\* 0 and (current - previous) / previous * 100 otherwise, a negative
\* previous profit included
C12_PercentChange ==
    IsReply(res, "getPerformanceComparison") =>
        LET c == res.body.comparison
        IN  /\ c.trades.changePercent
                   = PercentChange(Len(CurrentWindow), Len(PreviousWindow))
            /\ c.profit.changePercent
                   = PercentChange(SumSeq(ProfitsOf(CurrentWindow)),
                                   SumSeq(ProfitsOf(PreviousWindow)))

\* C13: the comparison that getPerformanceComparison reports has, for each
\* of trades, profit and winRate, a change (the absolute delta) and a
\* changePercent
C13_DeltaAndPercentPerMetric ==
    IsReply(res, "getPerformanceComparison") =>
        \A metric \in {"trades", "profit", "winRate"} :
            /\ metric \in DOMAIN res.body.comparison
            /\ {"change", "changePercent"}
                   \subseteq DOMAIN res.body.comparison[metric]

\* the winRate of the aggregation over a window: winning trades over closed
\* trades, times 100, and 0 without a closed trade; as generateReport
\* computes it (every trade with a profit wins) or over closed trades only
EngineWinRates(m) ==
    { WinRate(OverallGroup(m)),
      IF ClosedOf(m) = <<>> THEN Num(0)
      ELSE Frac(Len(WinnersOf(m)) * 100, Len(ClosedOf(m))) }

\* C14: for a non-empty window, the winRate that getPerformanceComparison
\* reports for it is the winRate of the aggregation over the window's trades
C14_ComparatorWinRate ==
    IsReply(res, "getPerformanceComparison") =>
        /\ CurrentWindow # <<>> =>
               res.body.comparison.winRate.current
                   \in EngineWinRates(CurrentWindow)
        /\ PreviousWindow # <<>> =>
               res.body.comparison.winRate.previous
                   \in EngineWinRates(PreviousWindow)

\* ------------------------------------------- claims about the trade store
\* C15: every stored trade has exitDate and exitPrice both present or both
\* absent, and both present when its status is CLOSED
C15_ExitFieldsPaired ==
    \A i \in 1..Len(trades) :
        /\ IsSome(trades[i].exitDate) <=> IsSome(trades[i].exitPrice)
        /\ trades[i].status = "CLOSED" =>
               (IsSome(trades[i].exitDate) /\ IsSome(trades[i].exitPrice))

\* C16: once a stored trade is CLOSED, no step gives the trade of that _id
\* the status OPEN again
C16_ClosedStaysClosed ==
    [][ \A i \in 1..Len(trades) : \A j \in 1..Len(trades') :
            (trades'[j]._id = trades[i]._id /\ trades[i].status = "CLOSED")
            => trades'[j].status # "OPEN" ]_vars

\* -------------------------------------------------------------- SpecList
\* the listings over the trades of two users
ListBodies ==
    { ReportBase(<<"a">>, 1, 2),
      Merge(Merge(ReportBase(<<"b">>, 2, 2), ClosedAt(4)), [profit |-> 25]) }

ListQueries ==
    { NoBody, [user |-> "u2"], [status |-> "OPEN"], [limit |-> 1],
      [user |-> "u2", symbol |-> <<"A">>],
      [startDate |-> 1, endDate |-> 1] }

AddListTrade ==
    \E u \in Users, body \in ListBodies :
        Len(trades) < MaxListTrades /\ createTrade(u, body)
GetAllTrades == \E q \in ListQueries : getAllTrades(Caller, q)
GetTradesByDateRange ==
    \E q \in ListQueries, tb \in TieBreaks : getTradesByDateRange(Caller, q, tb)
ListExport ==
    \E q \in {NoBody, [user |-> "u2"]}, tb \in TieBreaks :
        exportTrades(Caller, q, tb)

NextList ==
    \/ AddListTrade
    \/ GetAllTrades
    \/ GetTradesByDateRange
    \/ ListExport

SpecList == InitReport /\ [][NextList]_vars

\* C17: every document that a listing (getAllTrades, getTradesByDateRange,
\* the JSON export) returns to the caller belongs to the caller, whatever
\* the query, a query field named user included
C17_OnlyCallersTrades ==
    (IsReply(res, "getAllTrades") \/ IsReply(res, "getTradesByDateRange")
        \/ IsReply(res, "exportJson")) =>
        \A i \in 1..Len(res.body) : res.body[i].user = Caller

\* ------------------------------------------------------------- SpecFrame
\* the trade operations of one caller interleaved with every report
FrameBodies ==
    { BaseBody("BUY"), Merge(BaseBody("SELL"), ClosedAt(4)),
      Merge(Merge(BaseBody("BUY"), [entryDate |-> 0]), ManualProfit) }

AddFrameTrade ==
    \E body \in FrameBodies :
        Len(trades) < MaxFrameTrades /\ createTrade(Caller, body)
CloseFrameTrade ==
    \E id \in 1..MaxFrameTrades :
        closeTrade(Caller, id, [exitPrice |-> Some(4)])
DeleteFrameTrade == \E id \in 1..MaxFrameTrades : deleteTrade(Caller, id)
FrameReport ==
    \E q \in {NoBody, [period |-> "week"]}, tb \in TieBreaks :
        generateReport(Caller, q, tb)
FrameDaily ==
    \E q \in {NoBody, [date |-> 1]}, tb \in TieBreaks :
        getDailyReport(Caller, q, tb)
FrameMonthly ==
    \E q \in {NoBody, [year |-> 2023, month |-> 12]}, tb \in TieBreaks :
        getMonthlyReport(Caller, q, tb)
FrameComparison == getPerformanceComparison(Caller)
FrameExport ==
    \E q \in {NoBody, [format |-> "csv"]}, tb \in TieBreaks :
        exportTrades(Caller, q, tb)
FrameStats == \E q \in {NoBody, [period |-> "week"]} : getTradeStats(Caller, q)

NextFrame ==
    \/ AddFrameTrade
    \/ CloseFrameTrade
    \/ DeleteFrameTrade
    \/ FrameReport
    \/ FrameDaily
    \/ FrameMonthly
    \/ FrameComparison
    \/ FrameExport
    \/ FrameStats

SpecFrame == InitAuto /\ [][NextFrame]_vars

ReportKinds ==
    { "generateReport", "getDailyReport", "getMonthlyReport",
      "getPerformanceComparison", "exportTrades", "exportJson",
      "getTradeStats" }

\* C18: a step that answers a report (generateReport, getDailyReport,
\* getMonthlyReport, getPerformanceComparison, exportTrades, getTradeStats)
\* leaves the stored trades as they were
C18_ReportsLeaveTrades ==
    [][ (Has(res', "kind") /\ res'.kind \in ReportKinds) => trades' = trades ]_vars

\* a monthly report answered over a store whose closed trade was closed by
\* closeTrade and still has the profit it was created with
C18_Witness ==
    /\ IsReply(res, "getMonthlyReport")
    /\ \E i \in 1..Len(trades) :
           /\ trades[i].status = "CLOSED" /\ trades[i].type = "BUY"
           /\ trades[i].profit # FormulaProfit(trades[i])
    /\ res.body.summary.totalTrades = Num(Len(trades))

\* ------------------------------------------------------------- SpecClock
\* reports asked again on a later day
ClockBodies ==
    { Merge(Merge(ReportBase(<<"A">>, 2, 2), ClosedAt(4)), [profit |-> 25]),
      Merge(Merge(ReportBase(<<"A">>, 9, 2), ClosedAt(4)), [profit |-> -10]),
      ReportBase(<<"B">>, 10, 2) }

\* a day passes
Tick ==
    /\ now < MaxDay
    /\ now' = now + 1
    /\ UNCHANGED <<trades, autoCalc, res, infra>>

AddClockTrade ==
    \E body \in ClockBodies :
        Len(trades) < MaxClockTrades /\ createTrade(Caller, body)
ClockReport ==
    \E q \in {NoBody, [period |-> "week"], [period |-> "today"]},
       tb \in TieBreaks : generateReport(Caller, q, tb)
ClockStats == \E q \in {NoBody, [period |-> "week"]} : getTradeStats(Caller, q)

NextClock ==
    \/ Tick
    \/ AddClockTrade
    \/ ClockReport
    \/ ClockStats

SpecClock == InitReport /\ [][NextClock]_vars

\* the part of a report that does not depend on the order of equal sort keys
Statistics(r) == IF r.kind = "generateReport" THEN r.body.summary ELSE r.body

\* C19: when a report (generateReport, getTradeStats) is asked again with the
\* same query over the same trades, the statistics of the answer are those
\* of the answer before, however much later it is asked
C19_SameQuerySameReport ==
    [][ (/\ Has(res, "kind") /\ res.kind \in {"generateReport", "getTradeStats"}
         /\ Has(res', "kind") /\ res'.kind = res.kind
         /\ res'.query = res.query
         /\ trades' = trades)
        => Statistics(res') = Statistics(res) ]_vars

\* ----------------------------------------------------------- SpecPercent
\* trades created and saved while every account keeps autoCalculateProfit
\* on, some of them with an entry price of 0
PercentBodies ==
    { Merge(BaseBody(ty), [entryPrice |-> price]) :
        ty \in {"BUY", "SELL"}, price \in {0, 2} }
    \cup { Merge(Merge(BaseBody(ty), [entryPrice |-> price]), ClosedAt(4)) :
             ty \in {"BUY", "SELL"}, price \in {0, 2} }

AddPercentTrade ==
    \E body \in PercentBodies :
        Len(trades) < MaxPercentTrades /\ createTrade(Caller, body)
SavePercentTrade == \E id \in 1..MaxPercentTrades : saveTrade(Caller, id)
DeletePercentTrade == \E id \in 1..MaxPercentTrades : deleteTrade(Caller, id)

NextPercent ==
    \/ AddPercentTrade
    \/ SavePercentTrade
    \/ DeletePercentTrade

SpecPercent == InitAuto /\ [][NextPercent]_vars

\* C20: every stored closed trade has profitPercentage = profit /
\* (entryPrice * quantity) * 100, and profitPercentage 0 when entryPrice *
\* quantity is 0
C20_ProfitPercentage ==
    \A i \in 1..Len(trades) :
        ClosedWithExit(trades[i]) =>
            LET entryValue == trades[i].entryPrice * trades[i].quantity
            IN  trades[i].profitPercentage
                    = IF entryValue = 0 THEN Num(0)
                      ELSE Frac(trades[i].profit * 100, entryValue)

\* C21: over a non-empty collection, the totalProfit that generateReport and
\* getTradeStats report is the sum of profit over the CLOSED trades in scope,
\* and winningTrades and losingTrades count closed trades only
C21_TotalProfitClosedOnly ==
    ((IsReply(res, "generateReport") \/ IsReply(res, "getTradeStats"))
        /\ ReportedOver # <<>>) =>
        LET m == ReportedOver
            st == IF IsReply(res, "generateReport") THEN res.body.summary
                  ELSE res.body
        IN  /\ st.totalProfit = Num(SumSeq(ProfitsOf(ClosedOf(m))))
            /\ st.winningTrades = Num(Len(WinnersOf(m)))
            /\ st.losingTrades = Num(Len(LosersOf(m)))

\* C22: after any sequence of creates and updates, every stored trade whose
\* status is not CLOSED carries profit 0 and profitPercentage 0, the values
\* the reports read
C22_UnclosedCarryNoProfit ==
    \A i \in 1..Len(trades) :
        trades[i].status # "CLOSED" =>
            /\ trades[i].profit = 0
            /\ trades[i].profitPercentage = Num(0)

\* the place of a symbol in the ascending order of the keys
SymbolRank(key) == CHOOSE i \in 1..Len(SymbolNames) : SymbolNames[i] = key

\* C23: the by-symbol and by-strategy breakdowns of generateReport are in
\* descending order of totalProfit, and by-symbol groups of equal totalProfit
\* are in ascending order of their key
C23_TiesByAscendingKey ==
    IsReply(res, "generateReport") =>
        LET top == res.body.topSymbols
            strat == res.body.strategies
        IN  /\ \A i \in 1..Len(strat) : \A j \in (i + 1)..Len(strat) :
                   strat[i].totalProfit >= strat[j].totalProfit
            /\ \A i \in 1..Len(top) : \A j \in (i + 1)..Len(top) :
                   \/ top[i].totalProfit > top[j].totalProfit
                   \/ /\ top[i].totalProfit = top[j].totalProfit
                      /\ SymbolRank(top[i]._id) < SymbolRank(top[j]._id)

\* ---------------------------------------------------------- MongoConnection
\* this.maxRetries and this.retryDelay (milliseconds) of the constructor
maxRetries == 3
retryDelay == 2000

\* a connectWithRetry chain: its retryCount, the delays it has waited, and
\* whether it is inside mongoose.connect, inside setTimeout, or settled
NewChain == [retryCount |-> 0, delays |-> <<>>, phase |-> "attempting"]
Pending(ch) == ch.phase \in {"attempting", "waiting"}
ActiveChains == {i \in 1..Len(chains) : Pending(chains[i])}

\* checkConnection().isConnected: the driver's readyState is 1 (connected)
checkConnection == readyState = 1

\* a connect() that starts a chain of its own whenever isConnected is false
connectUnshared ==
    IF isConnected
    THEN [at |-> "returned", chain |-> 0,
          connectionPromise |-> connectionPromise, chains |-> chains]
    ELSE [at |-> "owner", chain |-> Len(chains) + 1,
          connectionPromise |-> Len(chains) + 1,
          chains |-> Append(chains, NewChain)]

\* the synchronous part of connect(): the values it leaves in the object and
\* where the caller stands.  connectionPromise is 0 for null, otherwise the
\* number of the chain whose promise it holds
connect ==
    IF isConnected
    THEN [at |-> "returned", chain |-> 0,
          connectionPromise |-> connectionPromise, chains |-> chains]
    ELSE IF connectionPromise # 0
    THEN [at |-> IF Pending(chains[connectionPromise]) THEN "sharing"
                 ELSE IF chains[connectionPromise].phase = "resolved"
                 THEN "returned" ELSE "threw",
          chain |-> connectionPromise,
          connectionPromise |-> connectionPromise, chains |-> chains]
    ELSE [at |-> "owner", chain |-> Len(chains) + 1,
          connectionPromise |-> Len(chains) + 1,
          chains |-> Append(chains, NewChain)]

\* mongoose.connect() moves a driver that is not connected to connecting
Connecting == IF readyState = 1 THEN 1 ELSE 2

\* the start-up code: mongoConnection.connect(mongoURI).catch(...)
bootConnect ==
    /\ pc["boot"].at = "idle"
    /\ LET r == connect
       IN  /\ connectionPromise' = r.connectionPromise
           /\ chains' = r.chains
           /\ pc' = [pc EXCEPT !["boot"] =
                        IF r.at \in {"owner", "sharing"}
                        THEN [at |-> r.at, chain |-> r.chain]
                        ELSE [at |-> "done", chain |-> 0]]
           /\ readyState' = IF r.at = "owner" THEN Connecting ELSE readyState
    /\ UNCHANGED <<isConnected, dbUp, trades, autoCalc, res, now, front>>

\* ensureDbConnection up to its first suspension that waits for the network:
\* the health check, connect() when the check fails, and, when connect()
\* returns at once, the second health check and the answer
ensureDbConnection(r) ==
    /\ pc[r].at = "idle"
    /\ pc["boot"].at # "idle"
    /\ IF checkConnection
       THEN /\ pc' = [pc EXCEPT ![r] = [at |-> "next", chain |-> 0]]
            /\ UNCHANGED <<connectionPromise, chains, readyState>>
       ELSE LET c == connect
            IN  /\ c.at = "owner" => Len(chains) < MaxChains
                /\ connectionPromise' = c.connectionPromise
                /\ chains' = c.chains
                /\ readyState' = IF c.at = "owner" THEN Connecting ELSE readyState
                /\ pc' = [pc EXCEPT ![r] =
                             IF c.at \in {"owner", "sharing"}
                             THEN [at |-> c.at, chain |-> c.chain]
                             ELSE [at |-> "503", chain |-> 0]]
    /\ UNCHANGED <<isConnected, dbUp, trades, autoCalc, res, now, front>>

\* the continuations that run when chain i settles: the owner's (the rest of
\* connect(): isConnected = true, or connectionPromise = null and rethrow),
\* then those of the callers that were handed the same promise; a request
\* goes on to its second health check, which reads the readyState rs
Settled(i, ok, rs) ==
    [c \in ConnectCallers |->
        IF pc[c].at \in {"owner", "sharing"} /\ pc[c].chain = i
        THEN IF c = "boot" THEN [at |-> "done", chain |-> 0]
             ELSE IF ok /\ rs = 1 THEN [at |-> "next", chain |-> 0]
             ELSE [at |-> "503", chain |-> 0]
        ELSE pc[c]]
Owned(i) == \E c \in ConnectCallers : pc[c].at = "owner" /\ pc[c].chain = i

\* mongoose.connect resolves inside chain i: the driver emits 'connected'
\* (the handler sets isConnected), the chain's promise resolves
attemptSucceeds(i) ==
    /\ i \in 1..Len(chains) /\ chains[i].phase = "attempting"
    /\ dbUp \/ readyState = 1
    /\ chains' = [chains EXCEPT ![i].phase = "resolved"]
    /\ readyState' = 1
    /\ isConnected' = TRUE
    /\ pc' = Settled(i, TRUE, 1)
    /\ UNCHANGED <<connectionPromise, dbUp, trades, autoCalc, res, now, front>>

\* mongoose.connect rejects inside chain i: either the chain waits
\* retryDelay * (retryCount + 1) before its next attempt, or, after
\* maxRetries retries, its promise rejects
attemptFails(i) ==
    /\ i \in 1..Len(chains) /\ chains[i].phase = "attempting"
    /\ ~dbUp /\ readyState # 1
    /\ readyState' = 0
    /\ IF chains[i].retryCount < maxRetries
       THEN /\ chains' = [chains EXCEPT
                  ![i].delays = Append(@, retryDelay * (chains[i].retryCount + 1)),
                  ![i].phase = "waiting"]
            /\ UNCHANGED <<connectionPromise, pc>>
       ELSE /\ chains' = [chains EXCEPT ![i].phase = "rejected"]
            /\ connectionPromise' = IF Owned(i) THEN 0 ELSE connectionPromise
            /\ pc' = Settled(i, FALSE, 0)
    /\ UNCHANGED <<isConnected, dbUp, trades, autoCalc, res, now, front>>

\* the timer of chain i fires: connectWithRetry(uri, options, retryCount + 1)
timerFires(i) ==
    /\ i \in 1..Len(chains) /\ chains[i].phase = "waiting"
    /\ chains' = [chains EXCEPT ![i].retryCount = @ + 1,
                                ![i].phase = "attempting"]
    /\ readyState' = Connecting
    /\ UNCHANGED <<isConnected, connectionPromise, dbUp, pc,
                   trades, autoCalc, res, now, front>>

\* the response of a request has been sent; the client sends its next one
respond(r) ==
    /\ pc[r].at \in {"next", "503"}
    /\ pc' = [pc EXCEPT ![r] = AtRest]
    /\ UNCHANGED <<isConnected, connectionPromise, chains, readyState, dbUp,
                   trades, autoCalc, res, now, front>>

\* the database becomes reachable or unreachable
dbChanges ==
    /\ dbUp' = ~dbUp
    /\ UNCHANGED <<isConnected, connectionPromise, chains, readyState, pc,
                   trades, autoCalc, res, now, front>>

\* an established connection is lost: the driver emits 'disconnected'
\* ('error', 'close'), whose handlers clear isConnected
connectionLost ==
    /\ readyState = 1 /\ ~dbUp
    /\ readyState' = 0
    /\ isConnected' = FALSE
    /\ UNCHANGED <<connectionPromise, chains, dbUp, pc,
                   trades, autoCalc, res, now, front>>

\* the driver re-establishes a connection it had lost and emits
\* 'reconnected', whose handler sets isConnected
reconnected ==
    /\ readyState = 0 /\ dbUp /\ ActiveChains = {}
    /\ \E i \in 1..Len(chains) : chains[i].phase = "resolved"
    /\ readyState' = 1
    /\ isConnected' = TRUE
    /\ UNCHANGED <<connectionPromise, chains, dbUp, pc,
                   trades, autoCalc, res, now, front>>

\* ---------------------------------------------------------------- SpecConn
InitConn ==
    /\ trades = <<>>
    /\ autoCalc = [u \in Users |-> FALSE]
    /\ res = Reply(0)
    /\ now = FirstDay
    /\ InfraIdle

BootConnect == bootConnect
EnsureDbConnection == \E r \in Requests : ensureDbConnection(r)
AttemptSucceeds == \E i \in 1..MaxChains : attemptSucceeds(i)
AttemptFails == \E i \in 1..MaxChains : attemptFails(i)
TimerFires == \E i \in 1..MaxChains : timerFires(i)
Respond == \E r \in Requests : respond(r)
DbChanges == dbChanges
ConnectionLost == connectionLost
Reconnected == reconnected

NextConn ==
    \/ BootConnect
    \/ EnsureDbConnection
    \/ AttemptSucceeds
    \/ AttemptFails
    \/ TimerFires
    \/ Respond
    \/ DbChanges
    \/ ConnectionLost
    \/ Reconnected

SpecConn == InitConn /\ [][NextConn]_vars

\* C24: a connectWithRetry chain whose promise rejects has made 3 connection
\* attempts, and each wait between two attempts was twice the wait before it
C24_ThreeAttemptsDoublingWaits ==
    \A i \in 1..Len(chains) :
        chains[i].phase = "rejected" =>
            /\ chains[i].retryCount + 1 = 3
            /\ \A k \in 1..(Len(chains[i].delays) - 1) :
                   chains[i].delays[k + 1] = 2 * chains[i].delays[k]

\* C25: once a connection has been established and lost, a request that
\* enters ensureDbConnection while the driver is not connected and no attempt
\* is in progress starts a new connection attempt; and isConnected turns
\* true only in a step that leaves the driver connected
C25_ReconnectOnRequest ==
    [][ /\ \A r \in Requests :
               (/\ pc[r].at = "idle" /\ pc'[r].at # "idle"
                /\ readyState # 1
                /\ ActiveChains = {}
                /\ \E i \in 1..Len(chains) : chains[i].phase = "resolved"
                /\ Len(chains) < MaxChains)
               => Len(chains') = Len(chains) + 1
        /\ (~isConnected /\ isConnected') => readyState' = 1 ]_vars

\* C30: at most one connectWithRetry chain is active at a time; every caller
\* waiting inside connect waits for the promise held in connectionPromise,
\* whose chain is still running; connectionPromise never holds the promise of
\* a chain that failed; and a connect call that finds isConnected false and
\* connectionPromise null starts a new chain
C30_SingleChainThenReset ==
    /\ [](/\ Cardinality(ActiveChains) <= 1
          /\ \A c \in ConnectCallers :
                 pc[c].at \in {"owner", "sharing"} =>
                     /\ pc[c].chain = connectionPromise
                     /\ Pending(chains[connectionPromise])
          /\ connectionPromise # 0 =>
                 chains[connectionPromise].phase # "rejected")
    /\ [][ \A c \in ConnectCallers :
               (/\ pc[c].at = "idle" /\ pc'[c].at # "idle"
                /\ ~checkConnection \/ c = "boot"
                /\ ~isConnected /\ connectionPromise = 0)
               => /\ Len(chains') = Len(chains) + 1
                  /\ pc'[c] = [at |-> "owner", chain |-> Len(chains')]
                  /\ connectionPromise' = Len(chains') ]_vars

\* a first chain has failed, a later connect has started a second one and
\* another caller shares its promise
C30_Witness ==
    /\ Len(chains) = 2
    /\ chains[1].phase = "rejected"
    /\ Pending(chains[2])
    /\ connectionPromise = 2
    /\ \E c, d \in Requests :
           /\ pc[c] = [at |-> "owner", chain |-> 2]
           /\ pc[d] = [at |-> "sharing", chain |-> 2]

\* ------------------------------------------------------------------ ApiCache
Minute == 60 * 1000
\* this.expiry of the constructor: 5 minutes
expiry == 5 * 60 * 1000

\* the results a request can have; the empty string is a falsy one
Data == {"", "d1"}

\* isValid(entry): entry && (Date.now() - entry.timestamp) < this.expiry.
\* A map entry is <<>> when the key is absent, <<e>> otherwise
isValid(entry) == entry # <<>> /\ (clock - entry[1].timestamp) < expiry

\* get(key): the data of a valid entry, otherwise null (<<>>) ...
get(key) == IF isValid(cache[key]) THEN <<cache[key][1].data>> ELSE <<>>
\* ... after deleting the key
cacheAfterGet(key) ==
    IF isValid(cache[key]) THEN cache ELSE [cache EXCEPT ![key] = <<>>]

\* set(key, data, customExpiry = null); customExpiry 0 stands for null
set(c, key, data, customExpiry) ==
    [c EXCEPT ![key] = << [data |-> data, timestamp |-> clock,
                           expiry |-> IF customExpiry # 0 THEN customExpiry
                                      ELSE expiry] >>]

\* apiCache.set(key, data, customExpiry) called by a component
cacheSet(key, data, customExpiry) ==
    /\ cache' = set(cache, key, data, customExpiry)
    /\ UNCHANGED <<inProgress, fetches, calls, got, clock,
                   trades, autoCalc, res, now, conn>>

\* apiCache.get(key) called by a component; got keeps the entry that get
\* read from the map, the time, and the value it returned
cacheGet(key) ==
    /\ got' = << [key |-> key, entry |-> cache[key], at |-> clock,
                  data |-> get(key)] >>
    /\ cache' = cacheAfterGet(key)
    /\ UNCHANGED <<inProgress, fetches, calls, clock,
                   trades, autoCalc, res, now, conn>>

\* a minute passes
minutePasses ==
    /\ clock < MaxMinutes * Minute
    /\ clock' = clock + Minute
    /\ UNCHANGED <<cache, inProgress, fetches, calls, got,
                   trades, autoCalc, res, now, conn>>

\* --------------------------------------------------------------- SpecCache
\* the expiries the callers pass: none, one minute, ten minutes
Expiries == {0, Minute, 10 * Minute}

CacheSet == \E k \in Keys, d \in Data, ce \in Expiries : cacheSet(k, d, ce)
CacheGet == \E k \in Keys : cacheGet(k)
MinutePasses == minutePasses

NextCache ==
    \/ CacheSet
    \/ CacheGet
    \/ MinutePasses

SpecCache == InitConn /\ [][NextCache]_vars

\* C26: get returns the data of the entry stored under the key exactly while
\* the entry is younger than its own expiry (the customExpiry given to set,
\* 5 minutes when none was given), and null otherwise
C26_EntryLivesItsOwnExpiry ==
    got # <<>> =>
        LET g == got[1]
        IN  IF g.entry # <<>> /\ (g.at - g.entry[1].timestamp) < g.entry[1].expiry
            THEN g.data = <<g.entry[1].data>>
            ELSE g.data = <<>>

\* ---------------------------------------------------------- optimizedApiCall
\* the network requests of a key that have not settled
InFlight(key) ==
    {f \in 1..Len(fetches) :
        fetches[f].key = key /\ fetches[f].phase = "inflight"}

\* an optimizedApiCall that does not look at the requests in progress
optimizedApiCallUnshared(c, key) ==
    /\ calls[c].at = "idle"
    /\ cache' = cacheAfterGet(key)
    /\ IF get(key) # <<>> /\ get(key)[1] # ""
       THEN /\ calls' = [calls EXCEPT ![c] =
                            [at |-> "done", fetch |-> 0, value |-> get(key)]]
            /\ UNCHANGED <<inProgress, fetches>>
       ELSE /\ Len(fetches) < MaxFetches
            /\ fetches' = Append(fetches, [key |-> key, phase |-> "inflight",
                                           data |-> <<>>])
            /\ inProgress' = [inProgress EXCEPT ![key] = Len(fetches) + 1]
            /\ calls' = [calls EXCEPT ![c] =
                            [at |-> "owner", fetch |-> Len(fetches) + 1,
                             value |-> <<>>]]
    /\ UNCHANGED <<got, clock, trades, autoCalc, res, now, conn>>

\* optimizedApiCall up to its first await: a truthy cached value is returned;
\* otherwise the caller awaits the promise in progress for the key, or
\* starts the fetch and registers its promise.  inProgress maps a key to the
\* number of the fetch whose promise it holds, 0 when it has none
optimizedApiCall(c, key) ==
    /\ calls[c].at = "idle"
    /\ cache' = cacheAfterGet(key)
    /\ IF get(key) # <<>> /\ get(key)[1] # ""
       THEN /\ calls' = [calls EXCEPT ![c] =
                            [at |-> "done", fetch |-> 0, value |-> get(key)]]
            /\ UNCHANGED <<inProgress, fetches>>
       ELSE IF inProgress[key] # 0
       THEN /\ calls' = [calls EXCEPT ![c] =
                            [at |-> "sharing", fetch |-> inProgress[key],
                             value |-> <<>>]]
            /\ UNCHANGED <<inProgress, fetches>>
       ELSE /\ Len(fetches) < MaxFetches
            /\ fetches' = Append(fetches, [key |-> key, phase |-> "inflight",
                                           data |-> <<>>])
            /\ inProgress' = [inProgress EXCEPT ![key] = Len(fetches) + 1]
            /\ calls' = [calls EXCEPT ![c] =
                            [at |-> "owner", fetch |-> Len(fetches) + 1,
                             value |-> <<>>]]
    /\ UNCHANGED <<got, clock, trades, autoCalc, res, now, conn>>

\* the calls that await fetch f
Awaiting(f) ==
    {c \in Components : calls[c].at \in {"owner", "sharing"} /\ calls[c].fetch = f}

\* fetch f resolves with data d: the finally callback deletes the key from
\* inProgress, the owner stores the result in the cache, and every call
\* awaiting the promise returns it
fetchResolves(f, d) ==
    /\ f \in 1..Len(fetches) /\ fetches[f].phase = "inflight"
    /\ fetches' = [fetches EXCEPT ![f].phase = "fulfilled", ![f].data = <<d>>]
    /\ inProgress' = [inProgress EXCEPT ![fetches[f].key] = 0]
    /\ cache' = IF \E c \in Awaiting(f) : calls[c].at = "owner"
                THEN set(cache, fetches[f].key, d, 0) ELSE cache
    /\ calls' = [c \in Components |->
                    IF c \in Awaiting(f)
                    THEN [at |-> "done", fetch |-> f, value |-> <<d>>]
                    ELSE calls[c]]
    /\ UNCHANGED <<got, clock, trades, autoCalc, res, now, conn>>

\* fetch f rejects: the key is deleted from inProgress and every call
\* awaiting the promise throws
fetchRejects(f) ==
    /\ f \in 1..Len(fetches) /\ fetches[f].phase = "inflight"
    /\ fetches' = [fetches EXCEPT ![f].phase = "rejected"]
    /\ inProgress' = [inProgress EXCEPT ![fetches[f].key] = 0]
    /\ calls' = [c \in Components |->
                    IF c \in Awaiting(f)
                    THEN [at |-> "threw", fetch |-> f, value |-> <<>>]
                    ELSE calls[c]]
    /\ UNCHANGED <<cache, got, clock, trades, autoCalc, res, now, conn>>

\* the component has its answer and may call again
callReturns(c) ==
    /\ calls[c].at \in {"done", "threw"}
    /\ calls' = [calls EXCEPT ![c] = NoCall]
    /\ UNCHANGED <<cache, inProgress, fetches, got, clock,
                   trades, autoCalc, res, now, conn>>

\* --------------------------------------------------------------- SpecDedup
OptimizedApiCall == \E c \in Components, k \in Keys : optimizedApiCall(c, k)
FetchResolves == \E f \in 1..MaxFetches, d \in Data : fetchResolves(f, d)
FetchRejects == \E f \in 1..MaxFetches : fetchRejects(f)
CallReturns == \E c \in Components : callReturns(c)
DedupMinutePasses == minutePasses

NextDedup ==
    \/ OptimizedApiCall
    \/ FetchResolves
    \/ FetchRejects
    \/ CallReturns
    \/ DedupMinutePasses

SpecDedup == InitConn /\ [][NextDedup]_vars

\* C27: at most one fetch per cache key is in flight at a time; every call
\* that is waiting waits for the fetch in flight for its key, the one
\* registered in inProgress; and a call that waited for a fetch returns that
\* fetch's result
C27_OneFetchInFlight ==
    /\ \A k \in Keys : Cardinality(InFlight(k)) <= 1
    /\ \A c \in Components :
           calls[c].at \in {"owner", "sharing"} =>
               /\ fetches[calls[c].fetch].phase = "inflight"
               /\ inProgress[fetches[calls[c].fetch].key] = calls[c].fetch
    /\ \A c \in Components :
           (calls[c].at = "done" /\ calls[c].fetch # 0) =>
               /\ fetches[calls[c].fetch].phase = "fulfilled"
               /\ calls[c].value = fetches[calls[c].fetch].data

\* two concurrent calls for one key wait on the key's second fetch, the
\* first having failed
C27_Witness ==
    /\ Len(fetches) >= 2
    /\ fetches[1].key = "k1" /\ fetches[1].phase = "rejected"
    /\ fetches[2].key = "k1" /\ fetches[2].phase = "inflight"
    /\ \A c \in Components : calls[c].fetch = 2
    /\ \E c \in Components : calls[c].at = "sharing"

\* --------------------------------------------------------------- SpecClose
\* closing the trades of two accounts: open, closed and cancelled ones
CloseTradeBodies(u) ==
    IF u = Caller
    THEN { Merge(BaseBody("BUY"), [notes |-> Some(<<"n">>)]),
           Merge(BaseBody("SELL"), ClosedAt(4)),
           Merge(BaseBody("BUY"), [status |-> "CANCELLED"]) }
    ELSE { BaseBody("BUY") }

\* bodies of PATCH /:id/close: no exit price, exit price 0, an exit price
\* with notes
CloseRequests ==
    { NoBody, [exitPrice |-> Some(0)],
      [exitPrice |-> Some(5), notes |-> Some(<<"m">>)] }
\* bodies of PATCH /bulk/close
BulkRequests ==
    { NoBody, [exitPrice |-> Some(0)],
      [exitPrice |-> Some(5), exitDate |-> Some(2)] }
CloseIds == 1..MaxCloseTrades

AddCloseTrade ==
    \E u \in Users : \E body \in CloseTradeBodies(u) :
        Len(trades) < MaxCloseTrades /\ createTrade(u, body)
CloseOneTrade ==
    \E u \in Users, id \in CloseIds, body \in CloseRequests :
        closeTrade(u, id, body)
BulkCloseSome ==
    \E u \in Users, ids \in SUBSET CloseIds, body \in BulkRequests :
        bulkCloseTrades(u, ids, body)

NextClose ==
    \/ AddCloseTrade
    \/ CloseOneTrade
    \/ BulkCloseSome

SpecClose == InitAuto /\ [][NextClose]_vars

C29_BulkCloseExactlyTheOpenListed ==
    [][ \A u \in Users, ids \in SUBSET CloseIds, body \in BulkRequests :
            (/\ bulkCloseTrades(u, ids, body)
             /\ ids # {}
             /\ Has(body, "exitPrice"))
            => LET hit(t) == t._id \in ids /\ t.user = u /\ t.status = "OPEN"
               IN  /\ Len(trades') = Len(trades)
                   /\ \A i \in 1..Len(trades) :
                          IF hit(trades[i])
                          THEN trades'[i] =
                                   [trades[i] EXCEPT
                                       !.status = "CLOSED",
                                       !.exitPrice = body.exitPrice,
                                       !.exitDate =
                                           IF Has(body, "exitDate")
                                           THEN body.exitDate ELSE Some(Now)]
                          ELSE trades'[i] = trades[i]
                   /\ res'.code = 200
                   /\ res'.body = Some(Len(SelectSeq(trades, hit))) ]_vars

====
